---- MODULE Spec2Model ----
(***************************************************************************)
(* A model of the terminal tic-tac-toe game of src/main.rs: the Game       *)
(* (board, player), the key handling of get_input, the win scan of         *)
(* check_win, the text produced by draw_board and the round loop of main.  *)
(*                                                                         *)
(* The terminal is the environment: every call of term.read_key() may      *)
(* return any key of Keys.  Clearing the screen changes no program state   *)
(* and is left out.                                                        *)
(***************************************************************************)
EXTENDS Integers, Sequences, FiniteSets, TLC

VARIABLES
    board,      \* game.board: board[row][col], rows and columns 0..2
    player,     \* game.player
    draw,       \* main's local `draw`: print the prompt on the next get_input
    pc,         \* where main is: "get_input", "returned", "done" ("check_win", "checked" in SpecWin)
    key,        \* the value term.read_key() returned in the last get_input
    index,      \* get_input's local `index`: the coordinates the last key named (NoIndex if none)
    ret,        \* the value the last get_input returned
    winner,     \* the value the last check_win returned
    prompt,     \* what the last get_input printed before reading (NoPrompt if nothing)
    screen,     \* the three lines draw_board printed last
    draws,      \* how many times draw_board has been called
    msg         \* the announcement printed at the end ("" while none)

vars == <<board, player, draw, pc, key, index, ret, winner, prompt, screen, draws, msg>>

----------------------------------------------------------------------------
(* Bounds of the environment: how many characters below '0' and above '9'  *)
(* the terminal may deliver besides the ten digits.                        *)
LowChars == 1
HighChars == 1

(* The board is 3 x 3. *)
Size == 3

Idx == 0..(Size - 1)

CellStates == {"Empty", "Nought", "Cross"}
Players == {"Noughts", "Crosses"}

None == "None"
Err == "Err"
NoIndex == <<>>
NoPrompt == <<>>
NoKey == [kind |-> "None", ch |-> 0]

(* Key::Char(c) carries the code point of c; the other keys and a failed   *)
(* read carry nothing.                                                     *)
Chars == (48 - LowChars)..(57 + HighChars)
Keys == {[kind |-> "Char", ch |-> c] : c \in Chars}
            \cup {[kind |-> k, ch |-> 0] : k \in {"Enter", "ArrowUp", "ReadErr"}}

AllBoards == [Idx -> [Idx -> CellStates]]

EmptyBoard == [r \in Idx |-> [c \in Idx |-> "Empty"]]

----------------------------------------------------------------------------
(* Player and CellState *)

to_letter(p) == IF p = "Noughts" THEN "O" ELSE "X"

to_number(p) == IF p = "Noughts" THEN 2 ELSE 1

to_player(s) ==
    CASE s = "Empty" -> Err
      [] s = "Nought" -> "Noughts"
      [] s = "Cross" -> "Crosses"

(* a variant of switch whose Noughts arm assigns Noughts again *)
switch_stuck(p) == "Noughts"

switch(p) == IF p = "Noughts" THEN "Crosses" ELSE "Noughts"

----------------------------------------------------------------------------
(* draw_board *)

(* a variant of get_cell that prints the counter before incrementing it *)
get_cell_zero_based(state, cell) ==
    CASE state = "Empty" -> <<"[", ToString(cell), "]">>
      [] state = "Nought" -> <<"[", "O", "]">>
      [] state = "Cross" -> <<"[", "X", "]">>

(* a cell is printed as three characters; format!("[{}]", cell) writes the  *)
(* incremented counter in decimal                                          *)
get_cell(state, cell) ==
    CASE state = "Empty" -> <<"[", ToString(cell + 1), "]">>
      [] state = "Nought" -> <<"[", "O", "]">>
      [] state = "Cross" -> <<"[", "X", "]">>

draw_board(b) ==
    [r \in Idx |-> [c \in Idx |-> get_cell(b[r][c], Size * r + c)]]

----------------------------------------------------------------------------
(* get_input: from the key to the coordinates *)

is_digit(ch) == ch >= 48 /\ ch <= 57

(* a variant of parse that is off by one *)
parse_off_by_one(ch) == ch - 47

parse(ch) == ch - 48

(* a variant of the table that counts the digits from 0 *)
DigitIndex_zero_based(d) ==
    IF d \in 0..8 THEN <<d \div 3, d % 3>> ELSE NoIndex

DigitIndex(d) ==
    CASE d = 1 -> <<0, 0>>
      [] d = 2 -> <<0, 1>>
      [] d = 3 -> <<0, 2>>
      [] d = 4 -> <<1, 0>>
      [] d = 5 -> <<1, 1>>
      [] d = 6 -> <<1, 2>>
      [] d = 7 -> <<2, 0>>
      [] d = 8 -> <<2, 1>>
      [] d = 9 -> <<2, 2>>
      [] OTHER -> NoIndex

KeyIndex(k) ==
    IF k.kind = "Char" /\ is_digit(k.ch)
    THEN DigitIndex(parse(k.ch))
    ELSE NoIndex

PlayerMark(p) == IF p = "Noughts" THEN "Nought" ELSE "Cross"

(* a variant that indexes the board as board[cell][row] *)
PlaceMark_transposed(b, row, cell, p) == [b EXCEPT ![cell][row] = PlayerMark(p)]

PlaceMark(b, row, cell, p) == [b EXCEPT ![row][cell] = PlayerMark(p)]

----------------------------------------------------------------------------
(* check_win *)

(* a variant of the column scan that gives up at a column of three Empty   *)
(* cells instead of going on to the next column                            *)
RECURSIVE Vertical_stops_at_empty(_, _)
Vertical_stops_at_empty(b, i_col) ==
    IF i_col >= Size THEN None
    ELSE IF b[0][i_col] = b[1][i_col] /\ b[0][i_col] = b[2][i_col]
         THEN IF to_player(b[0][i_col]) # Err THEN to_player(b[0][i_col]) ELSE None
         ELSE Vertical_stops_at_empty(b, i_col + 1)

(* a variant of the column scan that starts at the last column *)
RECURSIVE Vertical_from_right(_, _)
Vertical_from_right(b, i_col) ==
    IF i_col >= Size THEN None
    ELSE LET c == Size - 1 - i_col
         IN IF b[0][c] = b[1][c] /\ b[0][c] = b[2][c] /\ to_player(b[0][c]) # Err
            THEN to_player(b[0][c])
            ELSE Vertical_from_right(b, i_col + 1)

RECURSIVE Vertical(_, _)
Vertical(b, i_col) ==
    IF i_col >= Size THEN None
    ELSE IF b[0][i_col] = b[1][i_col] /\ b[0][i_col] = b[2][i_col]
            /\ to_player(b[0][i_col]) # Err
         THEN to_player(b[0][i_col])
         ELSE Vertical(b, i_col + 1)

(* the inner loops: every cell equals the one before it (the first equals  *)
(* itself)                                                                 *)
RowAllEqual(row) ==
    \A j \in Idx : row[j] = row[IF j = 0 THEN 0 ELSE j - 1]

RECURSIVE Horizontal(_, _)
Horizontal(b, i_row) ==
    IF i_row >= Size THEN None
    ELSE IF RowAllEqual(b[i_row]) /\ to_player(b[i_row][0]) # Err
         THEN to_player(b[i_row][0])
         ELSE Horizontal(b, i_row + 1)

Diagonals ==
    << << <<0, 0>>, <<1, 1>>, <<2, 2>> >>,
       << <<0, 2>>, <<1, 1>>, <<2, 0>> >> >>

DiagAllEqual(b, row) ==
    \A j \in 1..Len(row) :
        LET col == row[j]
            prev == row[IF j = 1 THEN 1 ELSE j - 1]
        IN b[col[1]][col[2]] = b[prev[1]][prev[2]]

(* a variant of the diagonal scan that looks at the first diagonal only *)
RECURSIVE Diagonal_main_only(_, _)
Diagonal_main_only(b, i) ==
    IF i > 1 THEN None
    ELSE LET row == Diagonals[i]
             first == b[row[1][1]][row[1][2]]
         IN IF DiagAllEqual(b, row) /\ to_player(first) # Err
            THEN to_player(first)
            ELSE Diagonal_main_only(b, i + 1)

RECURSIVE Diagonal(_, _)
Diagonal(b, i) ==
    IF i > Len(Diagonals) THEN None
    ELSE LET row == Diagonals[i]
             first == b[row[1][1]][row[1][2]]
         IN IF DiagAllEqual(b, row) /\ to_player(first) # Err
            THEN to_player(first)
            ELSE Diagonal(b, i + 1)

(* a variant of check_win without the scan of the rows *)
check_win_no_rows(b) ==
    LET v == Vertical(b, 0)
    IN IF v # None THEN v ELSE Diagonal(b, 1)

check_win(b) ==
    LET v == Vertical(b, 0)
    IN IF v # None THEN v
       ELSE LET h == Horizontal(b, 0)
            IN IF h # None THEN h ELSE Diagonal(b, 1)

----------------------------------------------------------------------------
(* main *)

(* a variant of the construction in which Noughts moves first *)
Init_noughts_first ==
    /\ board = EmptyBoard
    /\ player = "Noughts"
    /\ draw = TRUE
    /\ pc = "get_input"
    /\ key = NoKey
    /\ index = NoIndex
    /\ ret = FALSE
    /\ winner = None
    /\ prompt = NoPrompt
    /\ screen = draw_board(EmptyBoard)
    /\ draws = 1
    /\ msg = ""

Init ==
    /\ board = EmptyBoard
    /\ player = "Crosses"
    /\ draw = TRUE
    /\ pc = "get_input"
    /\ key = NoKey
    /\ index = NoIndex
    /\ ret = FALSE
    /\ winner = None
    /\ prompt = NoPrompt
    /\ screen = draw_board(EmptyBoard)
    /\ draws = 1
    /\ msg = ""

(* a variant of get_input that returns true for every key naming a cell,   *)
(* marking the cell only if it is Empty                                    *)
GetInput_accepts_occupied(k) ==
    /\ pc = "get_input"
    /\ key' = k
    /\ prompt' = IF draw THEN <<to_letter(player), to_number(player)>> ELSE NoPrompt
    /\ index' = KeyIndex(k)
    /\ LET i == KeyIndex(k)
       IN IF i # NoIndex
          THEN /\ board' = IF board[i[1]][i[2]] = "Empty"
                           THEN PlaceMark(board, i[1], i[2], player)
                           ELSE board
               /\ ret' = TRUE
          ELSE /\ board' = board
               /\ ret' = FALSE
    /\ pc' = "returned"
    /\ UNCHANGED <<player, draw, winner, screen, draws, msg>>

(* a variant of get_input that marks the cell without looking at it *)
GetInput_overwrites(k) ==
    /\ pc = "get_input"
    /\ key' = k
    /\ prompt' = IF draw THEN <<to_letter(player), to_number(player)>> ELSE NoPrompt
    /\ index' = KeyIndex(k)
    /\ LET i == KeyIndex(k)
       IN IF i # NoIndex
          THEN /\ board' = PlaceMark(board, i[1], i[2], player)
               /\ ret' = TRUE
          ELSE /\ board' = board
               /\ ret' = FALSE
    /\ pc' = "returned"
    /\ UNCHANGED <<player, draw, winner, screen, draws, msg>>

(* One call of get_input: print the prompt if asked, read one key, and     *)
(* mark the cell the key names if that cell is Empty.                      *)
GetInput(k) ==
    /\ pc = "get_input"
    /\ key' = k
    /\ prompt' = IF draw THEN <<to_letter(player), to_number(player)>> ELSE NoPrompt
    /\ index' = KeyIndex(k)
    /\ LET i == KeyIndex(k)
       IN IF i # NoIndex /\ board[i[1]][i[2]] = "Empty"
          THEN /\ board' = PlaceMark(board, i[1], i[2], player)
               /\ ret' = TRUE
          ELSE /\ board' = board
               /\ ret' = FALSE
    /\ pc' = "returned"
    /\ UNCHANGED <<player, draw, winner, screen, draws, msg>>

(* a variant of the inner loop that leaves `draw` as it is *)
Retry_keeps_draw ==
    /\ pc = "returned"
    /\ ~ret
    /\ pc' = "get_input"
    /\ UNCHANGED <<board, player, draw, key, index, ret, winner, prompt, screen, draws, msg>>

(* get_input returned false: the inner loop calls it again, without the    *)
(* prompt.                                                                 *)
Retry ==
    /\ pc = "returned"
    /\ ~ret
    /\ draw' = FALSE
    /\ pc' = "get_input"
    /\ UNCHANGED <<board, player, key, index, ret, winner, prompt, screen, draws, msg>>

(* a variant of the end of a round that switches the players before it     *)
(* looks for a winner                                                      *)
EndRound_switch_first ==
    /\ pc = "returned"
    /\ ret
    /\ winner' = check_win(board)
    /\ player' = switch(player)
    /\ IF check_win(board) # None
       THEN /\ msg' = IF check_win(board) = "Noughts" THEN "Noughts wins!" ELSE "Crosses wins!"
            /\ pc' = "done"
            /\ UNCHANGED <<draw, screen, draws>>
       ELSE /\ screen' = draw_board(board)
            /\ draws' = draws + 1
            /\ draw' = TRUE
            /\ pc' = "get_input"
            /\ msg' = msg
    /\ UNCHANGED <<board, key, index, ret, prompt>>

(* a variant of the end of a round whose winning arms do not leave the     *)
(* loop                                                                    *)
EndRound_no_break ==
    /\ pc = "returned"
    /\ ret
    /\ winner' = check_win(board)
    /\ IF check_win(board) # None
       THEN /\ msg' = IF check_win(board) = "Noughts" THEN "Noughts wins!" ELSE "Crosses wins!"
            /\ player' = player
       ELSE /\ player' = switch(player)
            /\ msg' = msg
    /\ screen' = draw_board(board)
    /\ draws' = draws + 1
    /\ draw' = TRUE
    /\ pc' = "get_input"
    /\ UNCHANGED <<board, key, index, ret, prompt>>

(* get_input returned true: check_win; a winner is announced and the loop  *)
(* left, otherwise the players switch and the next round starts by drawing *)
(* the board.                                                              *)
EndRound ==
    /\ pc = "returned"
    /\ ret
    /\ winner' = check_win(board)
    /\ IF check_win(board) # None
       THEN /\ msg' = IF check_win(board) = "Noughts" THEN "Noughts wins!" ELSE "Crosses wins!"
            /\ pc' = "done"
            /\ UNCHANGED <<player, draw, screen, draws>>
       ELSE /\ player' = switch(player)
            /\ screen' = draw_board(board)
            /\ draws' = draws + 1
            /\ draw' = TRUE
            /\ pc' = "get_input"
            /\ msg' = msg
    /\ UNCHANGED <<board, key, index, ret, prompt>>

Next ==
    \/ \E k \in Keys : GetInput(k)
    \/ Retry
    \/ EndRound

Spec == Init /\ [][Next]_vars

----------------------------------------------------------------------------
(* check_win on its own, applied to every board *)

InitWin ==
    /\ board \in AllBoards
    /\ player = "Crosses"
    /\ draw = TRUE
    /\ pc = "check_win"
    /\ key = NoKey
    /\ index = NoIndex
    /\ ret = FALSE
    /\ winner = None
    /\ prompt = NoPrompt
    /\ screen = draw_board(EmptyBoard)
    /\ draws = 1
    /\ msg = ""

CallCheckWin ==
    /\ pc = "check_win"
    /\ winner' = check_win(board)
    /\ pc' = "checked"
    /\ UNCHANGED <<board, player, draw, key, index, ret, prompt, screen, draws, msg>>

NextWin == CallCheckWin

SpecWin == InitWin /\ [][NextWin]_vars

----------------------------------------------------------------------------
(* the start of a round on its own, applied to every board: draw_board,    *)
(* then one call of get_input                                              *)

InitDraw ==
    /\ board \in AllBoards
    /\ player = "Crosses"
    /\ draw = TRUE
    /\ pc = "draw_board"
    /\ key = NoKey
    /\ index = NoIndex
    /\ ret = FALSE
    /\ winner = None
    /\ prompt = NoPrompt
    /\ screen = <<>>
    /\ draws = 0
    /\ msg = ""

CallDrawBoard ==
    /\ pc = "draw_board"
    /\ screen' = draw_board(board)
    /\ draws' = draws + 1
    /\ pc' = "get_input"
    /\ UNCHANGED <<board, player, draw, key, index, ret, winner, prompt, msg>>

NextDraw ==
    \/ CallDrawBoard
    \/ \E k \in Keys : GetInput(k)

SpecDraw == InitDraw /\ [][NextDraw]_vars

----------------------------------------------------------------------------
(* Vocabulary of the properties, stated from the rules of the game rather  *)
(* than from the scan of check_win.                                        *)

Cells == Idx \X Idx

Lines ==
    {{<<r, c>> : c \in Idx} : r \in Idx}
        \cup {{<<r, c>> : r \in Idx} : c \in Idx}
        \cup {{<<i, i>> : i \in Idx}, {<<i, Size - 1 - i>> : i \in Idx}}

MarkOf(p) == IF p = "Crosses" THEN "Cross" ELSE "Nought"

Other(p) == IF p = "Crosses" THEN "Noughts" ELSE "Crosses"

At(b, rc) == b[rc[1]][rc[2]]

Owns(b, L, p) == \A rc \in L : At(b, rc) = MarkOf(p)

HasLine(b, p) == \E L \in Lines : Owns(b, L, p)

CompleteLines(b) == {L \in Lines : \E p \in Players : Owns(b, L, p)}

Marked(b) == {rc \in Cells : At(b, rc) # "Empty"}

Full(b) == Marked(b) = Cells

(* the cell a key is aimed at: digit d names cell ((d-1) div 3, (d-1) mod 3) *)
IsMoveKey(k) == k.kind = "Char" /\ k.ch \in 49..57

Target(k) == <<(k.ch - 49) \div Size, (k.ch - 49) % Size>>

(* the steps of main *)
InputStep == pc = "get_input" /\ pc' = "returned"
RejectedStep == pc = "returned" /\ ~ret /\ pc' # pc
MovedStep == pc = "returned" /\ ret /\ pc' # pc

----------------------------------------------------------------------------
(* C1 as stated: for every board, check_win returns Some(p) if and only if *)
(* some row, column or diagonal is entirely occupied by p's mark, and None *)
(* otherwise.                                                              *)
C1_WinIffLine ==
    pc = "checked" =>
        /\ \A p \in Players : (winner = p) <=> HasLine(board, p)
        /\ (winner = None) <=> (\A p \in Players : ~HasLine(board, p))

(* C1 amended: for every one of the 3^9 boards, check_win returns None if  *)
(* and only if no row, column or diagonal is entirely occupied by one      *)
(* player's mark; a returned Some(p) always has a line entirely occupied   *)
(* by p's mark; and when only one player p has such a line the result is   *)
(* Some(p).  A line of three Empty cells is never a win and never stops    *)
(* the remaining lines from being examined.                                *)
C1_WinSound ==
    pc = "checked" =>
        /\ winner \in Players \cup {None}
        /\ (winner = None) <=> (\A p \in Players : ~HasLine(board, p))
        /\ \A p \in Players : (winner = p) => HasLine(board, p)
        /\ \A p \in Players :
              (HasLine(board, p) /\ ~HasLine(board, Other(p))) => winner = p

(* check_win has returned Noughts for a board whose first row is Empty     *)
(* (a line of three equal cells that is no win) and whose last row is      *)
(* Noughts'.                                                               *)
C1_Witness ==
    /\ pc = "checked"
    /\ winner = "Noughts"
    /\ \A c \in Idx : board[0][c] = "Empty"
    /\ \A c \in Idx : board[2][c] = "Nought"
    /\ ~HasLine(board, "Crosses")

----------------------------------------------------------------------------
(* C2 as stated: once a successful move has left all 9 cells occupied with *)
(* no winning line and main has handled it, the game is over with a draw   *)
(* reported, and it waits for no further input.                            *)
C2_DrawEndsGame ==
    (Full(board) /\ CompleteLines(board) = {} /\ pc # "returned") =>
        (pc = "done" /\ msg \notin {"", "Crosses wins!", "Noughts wins!"})

----------------------------------------------------------------------------
(* C3: after every successful move that does not end the game the active   *)
(* player toggles, and the active player changes at no other time.         *)
C3_TurnAlternation ==
    [][ /\ (MovedStep /\ pc' # "done") => player' = Other(player)
        /\ (player' # player) => (MovedStep /\ pc' # "done") ]_vars

(* two moves have been made and it is Crosses' turn again *)
C3_Witness ==
    /\ pc = "get_input"
    /\ draw
    /\ player = "Crosses"
    /\ Cardinality(Marked(board)) = 2

----------------------------------------------------------------------------
(* C4: a move aimed at an occupied cell is rejected whoever makes it:      *)
(* get_input returns false, the cells and the active player are unchanged, *)
(* and get_input is called again for the same player in the same round.    *)
C4_OccupiedRejected ==
    [][ /\ (InputStep /\ IsMoveKey(key') /\ At(board, Target(key')) # "Empty") =>
              (~ret' /\ board' = board /\ player' = player)
        /\ (RejectedStep /\ IsMoveKey(key) /\ At(board, Target(key)) # "Empty") =>
              (pc' = "get_input" /\ board' = board /\ player' = player
                  /\ screen' = screen /\ winner' = winner /\ msg' = msg) ]_vars

(* Noughts has aimed at a cell that holds a Cross and was turned down *)
C4_Witness ==
    /\ pc = "returned"
    /\ ~ret
    /\ player = "Noughts"
    /\ IsMoveKey(key)
    /\ At(board, Target(key)) = "Cross"

----------------------------------------------------------------------------
(* C5: a move aimed at an Empty cell always succeeds, and a successful     *)
(* move changes exactly one cell: the addressed cell goes from Empty to    *)
(* the mark of the active player and the other 8 cells are unchanged.      *)
C5_MoveFrame ==
    [][ InputStep =>
          /\ (IsMoveKey(key') /\ At(board, Target(key')) = "Empty") => ret'
          /\ ret' =>
                /\ IsMoveKey(key')
                /\ At(board, Target(key')) = "Empty"
                /\ At(board', Target(key')) = MarkOf(player)
                /\ {rc \in Cells : At(board', rc) # At(board, rc)} = {Target(key')}
                /\ player' = player ]_vars

(* Noughts has just marked the cell below the top left corner *)
C5_Witness ==
    /\ pc = "returned"
    /\ ret
    /\ player = "Noughts"
    /\ key = [kind |-> "Char", ch |-> 52]
    /\ board[1][0] = "Nought"

----------------------------------------------------------------------------
(* C6: the keys '1'..'9' are mapped one to one onto the 9 (row, col)       *)
(* pairs, digit d to ((d-1) div 3, (d-1) mod 3); every other key gives no  *)
(* coordinate.                                                             *)
C6_InputMapping ==
    /\ pc = "returned" =>
          index = IF IsMoveKey(key) THEN Target(key) ELSE NoIndex
    /\ \A k \in Keys :
          KeyIndex(k) = IF IsMoveKey(k) THEN Target(k) ELSE NoIndex
    /\ \A rc \in Cells :
          Cardinality({k \in Keys : KeyIndex(k) = rc}) = 1

(* key '0' has been read and gave no coordinate, with key '9' still usable *)
C6_Witness ==
    /\ pc = "returned"
    /\ key = [kind |-> "Char", ch |-> 48]
    /\ index = NoIndex
    /\ board[2][2] = "Cross"

----------------------------------------------------------------------------
(* C7: an input that is not one of '1'..'9' is ignored: get_input returns  *)
(* false, the board and the active player are unchanged, and the game      *)
(* stays in the same round waiting for the same player.                    *)
C7_InvalidIgnored ==
    [][ /\ (InputStep /\ ~IsMoveKey(key')) =>
              (~ret' /\ board' = board /\ player' = player
                  /\ winner' = winner /\ msg' = msg /\ screen' = screen)
        /\ (RejectedStep /\ ~IsMoveKey(key)) =>
              (pc' = "get_input" /\ board' = board /\ player' = player
                  /\ screen' = screen /\ winner' = winner /\ msg' = msg) ]_vars

(* a key that is no character at all has been turned down in mid-game *)
C7_Witness ==
    /\ pc = "returned"
    /\ ~ret
    /\ key.kind = "Enter"
    /\ Cardinality(Marked(board)) = 3

----------------------------------------------------------------------------
(* C8: a marked cell never reverts to Empty and never changes to the other *)
(* player's mark, and the board always has exactly 9 cells.                *)
C8_MarksPermanent ==
    /\ [](board \in AllBoards /\ Cardinality(Cells) = 9)
    /\ [][ \A rc \in Cells :
              At(board, rc) # "Empty" => At(board', rc) = At(board, rc) ]_vars

(* a key aimed at a marked cell has been handled on a board with 4 marks *)
C8_Witness ==
    /\ pc = "returned"
    /\ IsMoveKey(key)
    /\ Cardinality(Marked(board)) = 4
    /\ ~ret

----------------------------------------------------------------------------
(* C9 as stated: in every reachable state at most one line is complete.    *)
C9_AtMostOneLine == Cardinality(CompleteLines(board)) <= 1

(* C9 amended: in a game played from the empty board with strict turn      *)
(* alternation at most two lines are ever complete; while a cell is Empty  *)
(* at most one line is complete, and a move completes two lines at once    *)
(* only when it is Crosses' fifth mark, filling the last Empty cell.       *)
C9_TwoLinesOnlyOnFullBoard ==
    /\ Cardinality(CompleteLines(board)) <= 2
    /\ ~Full(board) => Cardinality(CompleteLines(board)) <= 1
    /\ Cardinality(CompleteLines(board)) = 2 =>
          /\ Full(board)
          /\ \A L \in CompleteLines(board) : Owns(board, L, "Crosses")
          /\ player = "Crosses"
          /\ IsMoveKey(key)
          /\ \A L \in CompleteLines(board) : Target(key) \in L

(* Crosses' last move has completed two lines at once *)
C9_Witness ==
    /\ pc = "returned"
    /\ ret
    /\ Cardinality(CompleteLines(board)) = 2

----------------------------------------------------------------------------
(* C10: in every reachable state all complete lines belong to one player,  *)
(* and whenever check_win reports a winner after a move, that winner is    *)
(* the player who just made the move, whose name is the one announced.     *)
C10_WinnerIsMover ==
    /\ \A p \in Players : HasLine(board, p) => ~HasLine(board, Other(p))
    /\ (pc = "returned" /\ ret) => check_win(board) \in {None, player}
    /\ (pc = "returned" /\ ret /\ check_win(board) # None) =>
          At(board, Target(key)) = MarkOf(check_win(board))
    /\ winner # None =>
          /\ pc = "done"
          /\ winner = player
          /\ At(board, Target(key)) = MarkOf(winner)
          /\ msg = IF player = "Crosses" THEN "Crosses wins!" ELSE "Noughts wins!"

(* Noughts has won and been announced *)
C10_Witness ==
    /\ pc = "done"
    /\ winner = "Noughts"
    /\ msg = "Noughts wins!"

----------------------------------------------------------------------------
(* More vocabulary of the properties *)

WinText(p) == IF p = "Crosses" THEN "Crosses wins!" ELSE "Noughts wins!"

PromptFor(p) == IF p = "Crosses" THEN <<"X", 1>> ELSE <<"O", 2>>

Count(b, m) == Cardinality({rc \in Cells : At(b, rc) = m})

(* the characters '0'..'9' as they are printed *)
DigitText == <<"0", "1", "2", "3", "4", "5", "6", "7", "8", "9">>

KeyText(k) == IF k.kind = "Char" /\ k.ch \in 48..57 THEN DigitText[k.ch - 47] ELSE "?"

(* what the board shows at 1-based position n *)
Shown(b, n) ==
    LET m == At(b, <<(n - 1) \div Size, (n - 1) % Size>>)
    IN <<"[", IF m = "Cross" THEN "X" ELSE IF m = "Nought" THEN "O" ELSE DigitText[n + 1], "]">>

(* the get_input about to run is the first one of its round *)
FirstRead == key = NoKey \/ ret

(* a key that marks a cell can be pressed *)
GoodMove == \E k \in Keys : GetInput(k) /\ ret'

----------------------------------------------------------------------------
(* C11: when the move just applied produces a winner the game enters a     *)
(* terminal state: the win is announced, the active player is not toggled, *)
(* no further input is read and the board is never modified again.         *)
C11_WinIsTerminal ==
    [][ /\ (MovedStep /\ \E p \in Players : HasLine(board, p)) =>
              /\ pc' = "done"
              /\ player' = player
              /\ board' = board
              /\ winner' \in Players
              /\ HasLine(board, winner')
              /\ msg' = WinText(winner')
        /\ pc # "done" ]_vars

(* Crosses has won with Empty cells left on the board *)
C11_Witness ==
    /\ pc = "done"
    /\ msg = "Crosses wins!"
    /\ HasLine(board, "Crosses")
    /\ ~Full(board)

----------------------------------------------------------------------------
(* C12 as stated: after a rejected input the prompt naming the active      *)
(* player's letter and number is printed again before the next keypress is *)
(* read, and the board is not redrawn.                                     *)
C12_RepromptAfterReject ==
    [][ (InputStep /\ ~FirstRead) =>
            (prompt' = PromptFor(player) /\ draws' = draws /\ screen' = screen) ]_vars

(* C12 amended: the prompt naming the active player's letter and number is *)
(* printed exactly once per round, before the round's first keypress is    *)
(* read; after a rejected input neither the prompt nor the board is        *)
(* printed again.  The board is drawn exactly once per round, at its       *)
(* start.                                                                  *)
C12_PromptOncePerRound ==
    /\ [][ /\ InputStep =>
                /\ prompt' = IF FirstRead THEN PromptFor(player) ELSE NoPrompt
                /\ draws' = draws
                /\ screen' = screen
           /\ RejectedStep => (draws' = draws /\ screen' = screen)
           /\ (MovedStep /\ pc' = "get_input") => draws' = draws + 1
           /\ (MovedStep /\ pc' = "done") => draws' = draws ]_vars
    /\ [](draws = IF pc = "get_input" \/ (pc = "returned" /\ ~ret)
                  THEN Cardinality(Marked(board)) + 1
                  ELSE Cardinality(Marked(board)))

(* in the third round a key has been read without a prompt and turned down *)
C12_Witness ==
    /\ pc = "returned"
    /\ ~ret
    /\ prompt = NoPrompt
    /\ draws = 3

----------------------------------------------------------------------------
(* C13: for every board draw_board emits the 9 cells in row-major order,   *)
(* three per line, as "[X]", "[O]" and "[n]" for an Empty cell at 1-based  *)
(* position n; pressing the digit n shown for an Empty cell marks exactly  *)
(* the cell that displayed n.                                              *)
C13_LegendMatchesInput ==
    /\ [](pc \in {"get_input", "returned"} =>
             /\ DOMAIN screen = Idx
             /\ \A r \in Idx : DOMAIN screen[r] = Idx
             /\ \A n \in 1..9 :
                   screen[(n - 1) \div Size][(n - 1) % Size]
                       = Shown(IF pc = "returned" /\ ret
                               THEN [board EXCEPT ![index[1]][index[2]] = "Empty"]
                               ELSE board, n))
    /\ [][ InputStep =>
             \A rc \in Cells :
                 screen[rc[1]][rc[2]] = <<"[", KeyText(key'), "]">> =>
                     /\ ret'
                     /\ At(board, rc) = "Empty"
                     /\ At(board', rc) = MarkOf(player)
                     /\ {x \in Cells : At(board', x) # At(board, x)} = {rc} ]_vars

(* key '7' has been pressed on a board that showed [X] [O] in the top row  *)
(* and [7] in the bottom left corner, and the corner is marked             *)
C13_Witness ==
    /\ pc = "returned"
    /\ ret
    /\ key = [kind |-> "Char", ch |-> 55]
    /\ screen[0][0] = <<"[", "X", "]">>
    /\ screen[0][1] = <<"[", "O", "]">>
    /\ screen[2][0] = <<"[", "7", "]">>
    /\ board[2][0] = "Cross"

----------------------------------------------------------------------------
(* C14 as stated: with a player who presses the digit of some Empty cell   *)
(* whenever one exists, every game terminates after at most 9 successful   *)
(* moves; so whenever the game waits for a key, either a key that marks a  *)
(* cell can still be pressed or the game is over.                          *)
C14_Terminates ==
    /\ Cardinality(Marked(board)) <= 9
    /\ pc = "get_input" => ENABLED GoodMove

----------------------------------------------------------------------------
(* C15: the game starts with all 9 cells Empty and Crosses active; in      *)
(* every state in which the game waits for input, Crosses is active iff    *)
(* there are as many Cross as Nought cells and Noughts is active iff there *)
(* is exactly one more Cross than Nought; the two counts never differ by   *)
(* more than one.                                                          *)
C15_MarksBalanced ==
    /\ board = EmptyBoard
    /\ player = "Crosses"
    /\ pc = "get_input"
    /\ [](/\ Count(board, "Cross") - Count(board, "Nought") \in {0, 1}
          /\ pc = "get_input" =>
                /\ (player = "Crosses") <=> (Count(board, "Cross") = Count(board, "Nought"))
                /\ (player = "Noughts") <=> (Count(board, "Cross") = Count(board, "Nought") + 1))

(* Noughts is asked for the sixth mark *)
C15_Witness ==
    /\ pc = "get_input"
    /\ player = "Noughts"
    /\ Count(board, "Cross") = 3
    /\ Count(board, "Nought") = 2

----------------------------------------------------------------------------
(* C16: whenever the game is waiting for a keypress the board contains no  *)
(* complete line for either player, and check_win of that board is None.   *)
C16_NoLineWhileWaiting ==
    pc = "get_input" =>
        /\ CompleteLines(board) = {}
        /\ check_win(board) = None

(* the game waits for the ninth mark *)
C16_Witness ==
    /\ pc = "get_input"
    /\ Cardinality(Marked(board)) = 8
    /\ player = "Crosses"

----------------------------------------------------------------------------
(* C17: check_win examines column 0, 1, 2, then row 0, 1, 2, then the main *)
(* diagonal, then the anti-diagonal, and returns the owner of the first    *)
(* line in that order that is complete and not Empty.                      *)
ScanOrder ==
    << {<<0, 0>>, <<1, 0>>, <<2, 0>>}, {<<0, 1>>, <<1, 1>>, <<2, 1>>},
       {<<0, 2>>, <<1, 2>>, <<2, 2>>},
       {<<0, 0>>, <<0, 1>>, <<0, 2>>}, {<<1, 0>>, <<1, 1>>, <<1, 2>>},
       {<<2, 0>>, <<2, 1>>, <<2, 2>>},
       {<<0, 0>>, <<1, 1>>, <<2, 2>>}, {<<0, 2>>, <<1, 1>>, <<2, 0>>} >>

FirstOwner(b) ==
    LET hits == {i \in 1..Len(ScanOrder) : \E p \in Players : Owns(b, ScanOrder[i], p)}
    IN IF hits = {} THEN None
       ELSE LET i == CHOOSE j \in hits : \A h \in hits : j <= h
            IN CHOOSE p \in Players : Owns(b, ScanOrder[i], p)

C17_FirstLineInScanOrder ==
    /\ {ScanOrder[i] : i \in 1..Len(ScanOrder)} = Lines
    /\ pc = "checked" => winner = FirstOwner(board)

(* column 1 is Noughts' and column 2 is Crosses': Noughts is returned *)
C17_Witness ==
    /\ pc = "checked"
    /\ \A r \in Idx : board[r][1] = "Nought" /\ board[r][2] = "Cross"
    /\ winner = "Noughts"

====
